---- MODULE Spec2Model ----
(***************************************************************************)
(* Auth0Manager (src/src/auth0_manager.py): the OAuth2 authorization-code  *)
(* flow with PKCE, the flow-state file shared by all sessions, the         *)
(* per-session Streamlit session_state and the users table.                *)
(*                                                                         *)
(* Each session runs one script at a time; a handler is a sequence of      *)
(* steps (pc) separated at the points where it reads or writes the shared  *)
(* file or the users table or waits for the identity provider, so that     *)
(* handlers of different sessions interleave exactly there.                *)
(*                                                                         *)
(* Also tickets_by_status (src/src/analysis.py) on the tables load_tickets *)
(* (src/src/data_loader.py) gives.                                         *)
(***************************************************************************)
EXTENDS Integers, FiniteSets, Sequences, TLC

VARIABLES
    now,        \* datetime.now(), in seconds
    ticks,      \* number of clock advances so far (bounds the run)
    file,       \* parsed content of streamlit_auth_states.json: state -> entry
    db,         \* users table: auth0_id -> row or NoRecord
    sess,       \* st.session_state of every session
    pc,         \* position of the handler every session is running
    loc,        \* local variables of the running handler
    ret,        \* the call that has just returned: session, operation, value
    generated,  \* state tokens secrets.token_urlsafe has produced so far
    stored,     \* history: state -> time at which a login() wrote it to the file
    successes,  \* history: state -> number of successful callbacks (0, 1, 2 = more than one)
    established, \* history: the successful callback the session's fields come from
    denied,     \* history: is_authenticated() returned False and no callback succeeded since
    config      \* Auth0Config: the settings read from the environment at import

vars == <<now, ticks, file, db, sess, pc, loc, ret, generated, stored, successes,
          established, denied, config>>

----------------------------------------------------------------------------
(* Bounds of the model *)

NumSessions == 2
NumStates == 2
MaxTicks == 2
(* secrets.token_bytes(32) and the 32 bytes of a SHA-256 digest, shortened:
   tokens of 1..MaxTokenBytes bytes, digests of DigestBytes bytes (32 and 2
   leave the same two bytes over in base64) *)
MaxTokenBytes == 3
DigestBytes == 2
(* the largest ticket table *)
MaxTickets == 3

(* Program constants *)

STATE_TTL == 600
SESSION_LIFETIME == 3600

Sessions == 1..NumSessions
States == 1..NumStates
Subs == {"auth0|1"}
Roles == {"admin", "analyst", "user"}

(* Python's None, per type of the value it stands in for *)
None == "None"
NoState == 0
NoTime == -1
NoVerifier == << >>
NoSub == "NoSub"
NoUserInfo == [sub |-> None]

(* a key missing from a JSON object; an expires_in that is not a number *)
Absent == "Absent"
AbsentNumber == -1
NotANumber == -2

(* the clock advances by one second, by a state lifetime or by a session
   lifetime *)
TickSteps == {1, STATE_TTL, SESSION_LIFETIME}

(* expires_in values the provider may send *)
ExpiresInValues == {1}

----------------------------------------------------------------------------
(* Values *)

(* A byte is a number in 0..255. A character of the URL-safe base64
   alphabet is its index 0..63 there (A-Z, a-z, 0-9, '-', '_'), and the
   padding character '=' is Pad *)
Pad == 64

(* base64.urlsafe_b64encode: three bytes give four characters; one or two
   bytes left over give two or three characters and '=' up to four *)
RECURSIVE B64Encode(_)
B64Encode(bytes) ==
    IF Len(bytes) = 0 THEN << >>
    ELSE IF Len(bytes) = 1
      THEN <<bytes[1] \div 4, (bytes[1] % 4) * 16, Pad, Pad>>
    ELSE IF Len(bytes) = 2
      THEN <<bytes[1] \div 4, (bytes[1] % 4) * 16 + bytes[2] \div 16,
             (bytes[2] % 16) * 4, Pad>>
    ELSE <<bytes[1] \div 4, (bytes[1] % 4) * 16 + bytes[2] \div 16,
           (bytes[2] % 16) * 4 + bytes[3] \div 64, bytes[3] % 64>>
         \o B64Encode(SubSeq(bytes, 4, Len(bytes)))

(* .rstrip('=') *)
RECURSIVE RStripPad(_)
RStripPad(text) ==
    IF Len(text) > 0 /\ text[Len(text)] = Pad
      THEN RStripPad(SubSeq(text, 1, Len(text) - 1))
      ELSE text

(* .decode('utf-8') then .encode('utf-8'): the ASCII code of a character *)
AsciiOf(c) ==
    CASE c < 26 -> 65 + c
      [] c >= 26 /\ c < 52 -> 97 + (c - 26)
      [] c >= 52 /\ c < 62 -> 48 + (c - 52)
      [] c = 62 -> 45
      [] c = 63 -> 95
      [] OTHER -> 61

Utf8Encode(text) == [i \in 1..Len(text) |-> AsciiOf(text[i])]

RECURSIVE SumBytes(_)
SumBytes(bytes) ==
    IF Len(bytes) = 0 THEN 0 ELSE bytes[1] + SumBytes(SubSeq(bytes, 2, Len(bytes)))

(* hashlib.sha256(...).digest(): the library's hash is not computed here;
   it is a fixed function of the bytes that gives DigestBytes bytes *)
Sha256(bytes) ==
    [i \in 1..DigestBytes |-> (SumBytes(bytes) * (2 * i + 1) + Len(bytes) + i) % 256]

(* the verifier left as base64 gives it, '=' included *)
CodeVerifierPadded(token) == B64Encode(token)

(* the code_verifier made of the random bytes token *)
CodeVerifier(token) == RStripPad(B64Encode(token))

(* the S256 code_challenge of a verifier *)
ChallengeOf(v) == RStripPad(B64Encode(Sha256(Utf8Encode(v))))

(* generate_pkce_pair, token being the bytes secrets.token_bytes gives *)
GeneratePkcePair(token) ==
    [code_verifier |-> CodeVerifier(token),
     code_challenge |-> ChallengeOf(CodeVerifier(token))]

(* the random bytes drawn by the login() that draws state s: another value
   for every login *)
TokenBytesOf(s) == <<s % 256, (255 - s) % 256>>

(* the verifier generated together with state s *)
VerifierOf(s) == GeneratePkcePair(TokenBytesOf(s)).code_verifier

IsoFormat(t) == <<"iso", t>>
FromIsoFormat(x) == x[2]

EmptyStates == [s \in {} |-> None]

AnonymousSession ==
    [authenticated |-> FALSE, user_info |-> NoUserInfo,
     access_token |-> None, token_expires_at |-> NoTime]


(* token responses: requests failed (None), a JSON value that is not an
   object, or an object with or without access_token / expires_in *)
TokenObjects ==
    [kind : {"object"}, access_token : {Absent, "tok"},
     expires_in : {AbsentNumber, NotANumber} \cup ExpiresInValues]
NoTokenResponse == [kind |-> "none", access_token |-> Absent, expires_in |-> AbsentNumber]
NotAnObject == [kind |-> "not_object", access_token |-> Absent, expires_in |-> AbsentNumber]
TokenResponses == {NoTokenResponse, NotAnObject} \cup TokenObjects

(* userinfo responses: failure (None) or the profile claims; sub may be
   missing *)
UserInfos == {NoUserInfo} \cup [sub : Subs \cup {NoSub}]

NoLocals ==
    [state |-> NoState, states |-> EmptyStates, code_verifier |-> NoVerifier,
     token_response |-> NoTokenResponse, user_info |-> NoUserInfo]

(* no successful callback stands behind the session's fields *)
NotEstablished == [at |-> NoTime, expires_in |-> AbsentNumber]

NoReturn == [session |-> 0, op |-> "none"]

SaveOutcomes == {"ok", "open_failed", "write_failed"}

----------------------------------------------------------------------------
(* Auth0Config with every required setting given, each under the name of
   its environment variable *)
ValidConfig ==
    [AUTH0_DOMAIN |-> "tenant.auth0.com", AUTH0_CLIENT_ID |-> "client-id",
     AUTH0_CLIENT_SECRET |-> "client-secret", AUTH0_CALLBACK_URL |-> "http://localhost:8501"]

(* the settings an environment can give: each one set or empty *)
Configs ==
    [AUTH0_DOMAIN : {"", "tenant.auth0.com"}, AUTH0_CLIENT_ID : {"", "client-id"},
     AUTH0_CLIENT_SECRET : {"", "client-secret"},
     AUTH0_CALLBACK_URL : {"", "http://localhost:8501"}]

(* validation that does not ask for the client secret *)
ValidateConfigNoSecret(c) ==
    IF c.AUTH0_DOMAIN = "" THEN [is_valid |-> FALSE, msg |-> "AUTH0_DOMAIN is not configured"]
    ELSE IF c.AUTH0_CLIENT_ID = ""
      THEN [is_valid |-> FALSE, msg |-> "AUTH0_CLIENT_ID is not configured"]
    ELSE IF c.AUTH0_CALLBACK_URL = ""
      THEN [is_valid |-> FALSE, msg |-> "AUTH0_CALLBACK_URL is not configured"]
    ELSE [is_valid |-> TRUE, msg |-> "Configuration is valid"]

(* Auth0Config.validate_config *)
ValidateConfig(c) ==
    IF c.AUTH0_DOMAIN = "" THEN [is_valid |-> FALSE, msg |-> "AUTH0_DOMAIN is not configured"]
    ELSE IF c.AUTH0_CLIENT_ID = ""
      THEN [is_valid |-> FALSE, msg |-> "AUTH0_CLIENT_ID is not configured"]
    ELSE IF c.AUTH0_CLIENT_SECRET = ""
      THEN [is_valid |-> FALSE, msg |-> "AUTH0_CLIENT_SECRET is not configured"]
    ELSE IF c.AUTH0_CALLBACK_URL = ""
      THEN [is_valid |-> FALSE, msg |-> "AUTH0_CALLBACK_URL is not configured"]
    ELSE [is_valid |-> TRUE, msg |-> "Configuration is valid"]

(* the state after construction, with the settings c *)
InitWith(c) ==
    /\ config = c
    /\ now = 0
    /\ ticks = 0
    /\ file = EmptyStates
    /\ db = [u \in {} |-> None]
    /\ sess = [p \in Sessions |-> AnonymousSession]
    /\ pc = [p \in Sessions |-> "idle"]
    /\ loc = [p \in Sessions |-> NoLocals]
    /\ ret = NoReturn
    /\ generated = {}
    /\ stored = [s \in {} |-> 0]
    /\ successes = [s \in States |-> 0]
    /\ established = [p \in Sessions |-> NotEstablished]
    /\ denied = [p \in Sessions |-> FALSE]

Init == InitWith(ValidConfig)

----------------------------------------------------------------------------
(* The flow-state file *)

(* _load_states: the parsed file, or {} when reading fails *)
LoadStates(ok) == IF ok THEN file ELSE EmptyStates

(* _save_states: the file after json.dump; an exception is only logged:
   the file is untouched when open() fails and empty (unparsable, which
   load reads as {}) when the write fails after open() truncated it *)
SaveStates(states, outcome) ==
    CASE outcome = "ok" -> states
      [] outcome = "open_failed" -> file
      [] OTHER -> EmptyStates

(* a cleanup that keeps every entry *)
CleanupKeepsAll(data, t) == (t - FromIsoFormat(data.timestamp)) >= 0

(* a cleanup that drops an entry already at the limit *)
CleanupKeepsBelowLimit(data, t) == (t - FromIsoFormat(data.timestamp)) < STATE_TTL

(* the age test of _cleanup_expired_states *)
CleanupKeeps(data, t) == (t - FromIsoFormat(data.timestamp)) <= STATE_TTL

(* _cleanup_expired_states *)
CleanupExpiredStates(states, t) ==
    [s \in {x \in DOMAIN states : CleanupKeeps(states[x], t)} |-> states[s]]

(* the age test with the age taken in minutes against the limit in
   seconds *)
CallbackExpiredInMinutes(data, t) ==
    ((t - FromIsoFormat(data.timestamp)) \div 60) > STATE_TTL

(* the age test of handle_callback *)
CallbackExpired(data, t) == (t - FromIsoFormat(data.timestamp)) > STATE_TTL

(* del states[state] *)
DelState(states, s) == [x \in DOMAIN states \ {s} |-> states[x]]

(* states[state] = {...} *)
PutState(states, s, data) ==
    [x \in DOMAIN states \cup {s} |-> IF x = s THEN data ELSE states[x]]

(* a script run handles its result (message, redirect, rerun) as soon as
   the call returns, before anything else is looked at *)
Quiet == ret = NoReturn

(* the dashboard validates the settings at the top of every script run and
   stops the run (st.stop()) when they are not valid: a run reaches the
   manager only with valid settings *)
ConfigValid == ValidateConfig(config).is_valid

(* a script run of session p can call the manager *)
Idle(p) == Quiet /\ pc[p] = "idle" /\ ConfigValid

(* the script run that ends at the configuration error *)
ConfigError(p) ==
    /\ Quiet /\ pc[p] = "idle"
    /\ ~ConfigValid
    /\ ret' = [session |-> p, op |-> "config_error", message |-> ValidateConfig(config).msg]
    /\ UNCHANGED <<config, denied, now, ticks, file, db, sess, pc, loc, generated, stored, successes,
                   established>>

ScriptEnds ==
    /\ ~Quiet
    /\ ret' = NoReturn
    /\ UNCHANGED <<config, denied, now, ticks, file, db, sess, pc, loc, generated, stored, successes,
                   established>>

Return(p, value) ==
    /\ pc' = [pc EXCEPT ![p] = "idle"]
    /\ loc' = [loc EXCEPT ![p] = NoLocals]
    /\ ret' = [session |-> p] @@ value

----------------------------------------------------------------------------
(* The clock *)

Tick(d) ==
    /\ Quiet
    /\ ticks < MaxTicks
    /\ now' = now + d
    /\ ticks' = ticks + 1
    /\ UNCHANGED <<config, denied, file, db, sess, pc, loc, ret, generated, stored, successes, established>>

----------------------------------------------------------------------------
(* The users table *)

(* get_user_from_database returns a row: there is one for sub and the
   lookup does not raise (otherwise it returns None) *)
GetUserFromDatabase(sub, ok) == ok /\ sub \in DOMAIN db

(* rows of the users table are changed by an administrator outside the
   manager: role and is_active of an existing row *)
AdminSetRole(u, r) ==
    /\ Quiet
    /\ u \in DOMAIN db
    /\ db[u].role # r
    /\ db' = [db EXCEPT ![u].role = r]
    /\ UNCHANGED <<config, denied, now, ticks, file, sess, pc, loc, ret, generated, stored, successes, established>>

AdminSetActive(u, b) ==
    /\ Quiet
    /\ u \in DOMAIN db
    /\ db[u].is_active # b
    /\ db' = [db EXCEPT ![u].is_active = b]
    /\ UNCHANGED <<config, denied, now, ticks, file, sess, pc, loc, ret, generated, stored, successes, established>>

----------------------------------------------------------------------------
(* login() *)

AuthorizationUrl(s, v) == [state |-> s, code_challenge |-> ChallengeOf(v)]

(* secrets.token_urlsafe(32): a token not produced before *)
FreshState ==
    IF generated = States THEN NoState
    ELSE CHOOSE s \in States \ generated : \A x \in States \ generated : s <= x

(* get_authorization_url, _load_states, _cleanup_expired_states *)
LoginStart(p, s, loadOk) ==
    /\ Idle(p)
    /\ s = FreshState
    /\ generated' = generated \cup {s}
    /\ loc' = [loc EXCEPT ![p] =
                 [NoLocals EXCEPT !.state = s,
                                  !.code_verifier = VerifierOf(s),
                                  !.states = CleanupExpiredStates(LoadStates(loadOk), now)]]
    /\ pc' = [pc EXCEPT ![p] = "login_save"]
    /\ UNCHANGED <<config, denied, now, ticks, file, db, sess, ret, stored, successes, established>>

(* the entry login() writes for its state *)
LoginEntry(v, t) == [code_verifier |-> v, timestamp |-> IsoFormat(t)]

(* states[state] = {...}, _save_states, return auth_url *)
LoginSave(p, outcome) ==
    /\ Quiet /\ pc[p] = "login_save"
    /\ LET s == loc[p].state
           v == loc[p].code_verifier
           states == PutState(loc[p].states, s, LoginEntry(v, now))
       IN /\ file' = SaveStates(states, outcome)
          /\ stored' = IF outcome = "ok"
                         THEN [x \in DOMAIN stored \cup {s} |->
                                 IF x = s THEN now ELSE stored[x]]
                         ELSE stored
          /\ Return(p, [op |-> "login", url |-> AuthorizationUrl(s, v)])
    /\ UNCHANGED <<config, denied, now, ticks, db, sess, generated, successes, established>>

----------------------------------------------------------------------------
(* handle_callback(code, state) *)

Failure(msg) == [op |-> "handle_callback", raised |-> FALSE, success |-> FALSE, message |-> msg]
Success == [op |-> "handle_callback", raised |-> FALSE, success |-> TRUE,
            message |-> "Authentication successful"]
Raised == [op |-> "handle_callback", raised |-> TRUE, success |-> FALSE, message |-> None]

(* the message of the expired branch used for an unknown state *)
MsgInvalidStateAsExpired == "Authentication session expired. Please try logging in again."
MsgInvalidState == "Invalid or expired state parameter"
MsgExpired == "Authentication session expired. Please try logging in again."
MsgNoVerifier == "Code verifier not found"
MsgExchange == "Failed to exchange authorization code for token. Check Auth0 configuration."
MsgNoToken == "No access token in response"
MsgUserInfo == "Failed to retrieve user info from Auth0"

(* _load_states, the membership test, the expiry test and the verifier
   test *)
CallbackStart(p, s, loadOk) ==
    /\ Idle(p)
    /\ LET states == LoadStates(loadOk)
       IN IF s \notin DOMAIN states
            THEN Return(p, Failure(MsgInvalidState))
          ELSE IF CallbackExpired(states[s], now)
            THEN /\ pc' = [pc EXCEPT ![p] = "cb_expired_save"]
                 /\ loc' = [loc EXCEPT ![p] =
                              [NoLocals EXCEPT !.state = s,
                                               !.code_verifier = states[s].code_verifier,
                                               !.states = DelState(states, s)]]
                 /\ ret' = ret
          ELSE IF states[s].code_verifier = NoVerifier
            THEN Return(p, Failure(MsgNoVerifier))
          ELSE /\ pc' = [pc EXCEPT ![p] = "cb_provider"]
               /\ loc' = [loc EXCEPT ![p] =
                            [NoLocals EXCEPT !.state = s,
                                             !.code_verifier = states[s].code_verifier,
                                             !.states = states]]
               /\ ret' = ret
    /\ UNCHANGED <<config, denied, now, ticks, file, db, sess, generated, stored, successes, established>>

(* the expired branch also logging the session out *)
CallbackExpiredSaveLogsOut(p, outcome) ==
    /\ Quiet /\ pc[p] = "cb_expired_save"
    /\ file' = SaveStates(loc[p].states, outcome)
    /\ sess' = [sess EXCEPT ![p] = AnonymousSession]
    /\ Return(p, [op |-> "handle_callback", raised |-> FALSE, success |-> FALSE,
                  message |-> "Authentication session expired. Please try logging in again."])
    /\ UNCHANGED <<config, denied, now, ticks, db, generated, stored, successes, established>>

(* the expired branch: _save_states(states) after del states[state] *)
CallbackExpiredSave(p, outcome) ==
    /\ Quiet /\ pc[p] = "cb_expired_save"
    /\ file' = SaveStates(loc[p].states, outcome)
    /\ Return(p, Failure(MsgExpired))
    /\ UNCHANGED <<config, denied, now, ticks, db, sess, generated, stored, successes, established>>

(* A str value of the profile or of a row is the sequence of its pieces,
   "@" a piece of its own; '' is the empty sequence *)
EmptyText == << >>

(* user_info.get(key) or '' *)
GetText(user_info, key) ==
    IF key \in DOMAIN user_info THEN user_info[key] ELSE EmptyText

(* email.split('@')[0] *)
RECURSIVE LocalPart(_)
LocalPart(text) ==
    IF text = EmptyText \/ Head(text) = "@" THEN EmptyText
    ELSE <<Head(text)>> \o LocalPart(Tail(text))

(* email = user_info.get('email') or user_info.get('preferred_username') or '' *)
ProfileEmail(user_info) ==
    IF GetText(user_info, "email") # EmptyText THEN GetText(user_info, "email")
    ELSE GetText(user_info, "preferred_username")

(* the name taken from the email whatever it is, also for an empty one *)
ProfileNameNoUnknown(user_info) ==
    IF GetText(user_info, "name") # EmptyText THEN GetText(user_info, "name")
    ELSE IF GetText(user_info, "nickname") # EmptyText THEN GetText(user_info, "nickname")
    ELSE IF GetText(user_info, "given_name") # EmptyText THEN GetText(user_info, "given_name")
    ELSE LocalPart(ProfileEmail(user_info))

(* name = name or nickname or given_name or (email.split('@')[0] if email
   else 'Unknown User'), computed before an email is synthesized *)
ProfileName(user_info) ==
    IF GetText(user_info, "name") # EmptyText THEN GetText(user_info, "name")
    ELSE IF GetText(user_info, "nickname") # EmptyText THEN GetText(user_info, "nickname")
    ELSE IF GetText(user_info, "given_name") # EmptyText THEN GetText(user_info, "given_name")
    ELSE IF ProfileEmail(user_info) # EmptyText THEN LocalPart(ProfileEmail(user_info))
    ELSE <<"Unknown User">>

(* bool(user_info.get('email_verified', False)) *)
EmailVerified(user_info) ==
    "email_verified" \in DOMAIN user_info /\ user_info["email_verified"]

(* not auth0_id: the profile has no sub or an empty one *)
MissingSub(user_info) == user_info.sub \in {NoSub, ""}

(* f"{auth0_id}@unknown.auth0" *)
SynthesizedEmail(auth0_id) == <<auth0_id, "@", "unknown.auth0">>

(* a profile without email makes the sync fail: nothing is stored for it *)
StoredEmailRequired(user_info) == ProfileEmail(user_info)

(* the email written to the row: the profile's, or the synthesized one *)
StoredEmail(user_info) ==
    IF ProfileEmail(user_info) = EmptyText THEN SynthesizedEmail(user_info.sub)
    ELSE ProfileEmail(user_info)

(* the columns both UPDATE and INSERT write; GETDATE() is the time t *)
SyncedColumns(user_info, t) ==
    [email |-> StoredEmail(user_info),
     name |-> ProfileName(user_info),
     picture |-> GetText(user_info, "picture"),
     email_verified |-> EmailVerified(user_info),
     last_login |-> t]

(* a login that carries the role of the profile into the new row *)
NewUserRowAdmin == [role |-> "admin", is_active |-> TRUE]

(* the columns of a new row the INSERT names or the table defaults: role
   'user', is_active 1 *)
NewUserRow == [role |-> "user", is_active |-> TRUE]

(* the value sync_user_to_database returns *)
SyncUserResult(user_info, ok) == ok /\ ~MissingSub(user_info)

(* sync that writes the row before it looks at sub *)
SyncUserToDatabaseUnchecked(user_info, ok) ==
    IF ~ok THEN db
    ELSE [u \in DOMAIN db \cup {user_info.sub} |->
            IF u # user_info.sub THEN db[u]
            ELSE IF u \in DOMAIN db THEN SyncedColumns(user_info, now) @@ db[u]
            ELSE SyncedColumns(user_info, now) @@ [created_at |-> now] @@ NewUserRow]

(* sync whose UPDATE resets role and is_active to the defaults *)
SyncUserToDatabaseResets(user_info, ok) ==
    IF ~ok \/ MissingSub(user_info) THEN db
    ELSE [u \in DOMAIN db \cup {user_info.sub} |->
            IF u # user_info.sub THEN db[u]
            ELSE IF u \in DOMAIN db
              THEN SyncedColumns(user_info, now) @@ NewUserRow @@ db[u]
            ELSE SyncedColumns(user_info, now) @@ [created_at |-> now] @@ NewUserRow]

(* sync_user_to_database: False and no change when connecting or a
   statement raises (ok = FALSE: nothing is committed) or the profile has no
   sub; the row of a sub that has one (auth0_id is UNIQUE: the table is
   keyed by it) is updated, role, is_active and created_at left alone;
   otherwise a row is inserted. Two syncs of one sub running at once end as
   they do one after the other: the second INSERT fails on the UNIQUE
   constraint and returns False *)
SyncUserToDatabase(user_info, ok) ==
    IF ~ok \/ MissingSub(user_info) THEN db
    ELSE [u \in DOMAIN db \cup {user_info.sub} |->
            IF u # user_info.sub THEN db[u]
            ELSE IF u \in DOMAIN db THEN SyncedColumns(user_info, now) @@ db[u]
            ELSE SyncedColumns(user_info, now) @@ [created_at |-> now] @@ NewUserRow]

(* exchange_code_for_token, get_user_info, sync_user_to_database and the
   tests on their results: the calls to the identity provider and the users
   table *)
CallbackProvider(p, resp, info, ok) ==
    /\ Quiet /\ pc[p] = "cb_provider"
    /\ IF resp.kind = "none"
         THEN Return(p, Failure(MsgExchange)) /\ db' = db
       ELSE IF resp.kind = "not_object"
         THEN Return(p, Raised) /\ db' = db
       ELSE IF resp.access_token = Absent /\ resp.expires_in = AbsentNumber
         THEN Return(p, Failure(MsgExchange)) /\ db' = db
       ELSE IF resp.access_token = Absent
         THEN Return(p, Failure(MsgNoToken)) /\ db' = db
       ELSE IF info = NoUserInfo
         THEN Return(p, Failure(MsgUserInfo)) /\ db' = db
       ELSE /\ db' = SyncUserToDatabase(info, ok)
            /\ pc' = [pc EXCEPT ![p] = "cb_finish"]
            /\ loc' = [loc EXCEPT ![p].token_response = resp, ![p].user_info = info]
            /\ ret' = ret
    /\ UNCHANGED <<config, denied, now, ticks, file, sess, generated, stored, successes, established>>

(* the provider's expires_in ignored: always the configured lifetime *)
ExpiresInIgnored(resp) == SESSION_LIFETIME

(* expires_in = token_response.get('expires_in', SESSION_LIFETIME) *)
ExpiresIn(resp) ==
    IF resp.expires_in = AbsentNumber THEN SESSION_LIFETIME ELSE resp.expires_in

(* datetime.now() + timedelta(seconds=expires_in) *)
TokenExpiresAt(t, resp) == t + ExpiresIn(resp)

(* the session fields, the expiry, the removal of the used state; timedelta
   raises on an expires_in that is not a number, after the first three
   fields are set *)
CallbackFinish(p, outcome) ==
    /\ Quiet /\ pc[p] = "cb_finish"
    /\ LET resp == loc[p].token_response
           s == loc[p].state
       IN IF ExpiresIn(resp) = NotANumber
            THEN /\ sess' = [sess EXCEPT ![p].authenticated = TRUE,
                                         ![p].user_info = loc[p].user_info,
                                         ![p].access_token = resp.access_token]
                 /\ established' = [established EXCEPT ![p] = NotEstablished]
                 /\ Return(p, Raised)
                 /\ UNCHANGED <<config, denied, file, successes>>
            ELSE /\ sess' = [sess EXCEPT ![p] =
                               [authenticated |-> TRUE,
                                user_info |-> loc[p].user_info,
                                access_token |-> resp.access_token,
                                token_expires_at |-> TokenExpiresAt(now, resp)]]
                 /\ file' = SaveStates(DelState(loc[p].states, s), outcome)
                 /\ successes' = [successes EXCEPT ![s] = IF @ < 2 THEN @ + 1 ELSE 2]
                 /\ established' = [established EXCEPT ![p] =
                                      [at |-> now, expires_in |-> resp.expires_in]]
                 /\ denied' = [denied EXCEPT ![p] = FALSE]
                 /\ Return(p, Success)
    /\ UNCHANGED <<config, now, ticks, db, generated, stored>>

----------------------------------------------------------------------------
(* Session queries *)

(* the token taken as expired already at the deadline *)
TokenExpiredAtDeadline(session, t) ==
    session.token_expires_at # NoTime /\ t >= session.token_expires_at

TokenExpired(session, t) ==
    session.token_expires_at # NoTime /\ t > session.token_expires_at

UserInactive(session, ok) ==
    /\ session.user_info # NoUserInfo
    /\ GetUserFromDatabase(session.user_info.sub, ok)
    /\ ~db[session.user_info.sub].is_active

(* the value is_authenticated() returns *)
IsAuthenticatedValue(session, t, ok) ==
    /\ session.authenticated
    /\ ~TokenExpired(session, t)
    /\ ~UserInactive(session, ok)

(* a sliding session: every successful check renews the expiry *)
IsAuthenticatedSessionSliding(session, t, ok) ==
    IF ~session.authenticated THEN session
    ELSE IF (session.token_expires_at # NoTime /\ t > session.token_expires_at)
            \/ (/\ session.user_info # NoUserInfo
                /\ ok /\ session.user_info.sub \in DOMAIN db
                /\ ~db[session.user_info.sub].is_active)
      THEN AnonymousSession
      ELSE [session EXCEPT !.token_expires_at = t + SESSION_LIFETIME]

(* the session after is_authenticated(): logout() on expiry or on an
   inactive user *)
IsAuthenticatedSession(session, t, ok) ==
    IF session.authenticated /\ (TokenExpired(session, t) \/ UserInactive(session, ok))
      THEN AnonymousSession
      ELSE session

(* the history after is_authenticated(): a session logged out for an
   inactive user is no longer the one the callback established *)
IsAuthenticatedHistory(p, ok) ==
    IF sess[p].authenticated /\ ~TokenExpired(sess[p], now) /\ UserInactive(sess[p], ok)
      THEN [established EXCEPT ![p] = NotEstablished]
      ELSE established

(* the history after is_authenticated(): it has returned False in the
   session since the last successful callback *)
IsAuthenticatedDenied(p, ok) ==
    [denied EXCEPT ![p] = @ \/ ~IsAuthenticatedValue(sess[p], now, ok)]

IsAuthenticated(p, ok) ==
    /\ Idle(p)
    /\ sess' = [sess EXCEPT ![p] = IsAuthenticatedSession(sess[p], now, ok)]
    /\ established' = IsAuthenticatedHistory(p, ok)
    /\ ret' = [session |-> p, op |-> "is_authenticated",
               value |-> IsAuthenticatedValue(sess[p], now, ok)]
    /\ denied' = IsAuthenticatedDenied(p, ok)
    /\ UNCHANGED <<config, now, ticks, file, db, pc, loc, generated, stored, successes>>

(* a hierarchy in which an unknown role is allowed everything *)
AllowedRolesOpen(role) ==
    CASE role = "analyst" -> {"analyst", "user"}
      [] role = "user" -> {"user"}
      [] OTHER -> {"admin", "analyst", "user"}

(* role_hierarchy.get(user_role, ['user']) *)
AllowedRoles(role) ==
    CASE role = "admin" -> {"admin", "analyst", "user"}
      [] role = "analyst" -> {"analyst", "user"}
      [] OTHER -> {"user"}

(* a role check that takes a user without a row for one of role 'user' *)
CheckUserRoleValueLeastPrivilege(session, t, required_role, ok1, ok2) ==
    /\ IsAuthenticatedValue(session, t, ok1)
    /\ session.user_info # NoUserInfo
    /\ IF GetUserFromDatabase(session.user_info.sub, ok2)
         THEN required_role \in AllowedRoles(db[session.user_info.sub].role)
         ELSE required_role = "user"

(* the value check_user_role(required_role) returns: is_authenticated(),
   then a second lookup of the row *)
CheckUserRoleValue(session, t, required_role, ok1, ok2) ==
    /\ IsAuthenticatedValue(session, t, ok1)
    /\ session.user_info # NoUserInfo
    /\ GetUserFromDatabase(session.user_info.sub, ok2)
    /\ required_role \in AllowedRoles(db[session.user_info.sub].role)

CheckUserRole(p, required_role, ok1, ok2) ==
    /\ Idle(p)
    /\ sess' = [sess EXCEPT ![p] = IsAuthenticatedSession(sess[p], now, ok1)]
    /\ established' = IsAuthenticatedHistory(p, ok1)
    /\ ret' = [session |-> p, op |-> "check_user_role",
               value |-> CheckUserRoleValue(sess[p], now, required_role, ok1, ok2)]
    /\ denied' = IsAuthenticatedDenied(p, ok1)
    /\ UNCHANGED <<config, now, ticks, file, db, pc, loc, generated, stored, successes>>

(* a logout that only drops the flag *)
LogoutFlagOnly(p) ==
    /\ Idle(p)
    /\ sess' = [sess EXCEPT ![p].authenticated = FALSE]
    /\ established' = [established EXCEPT ![p] = NotEstablished]
    /\ ret' = [session |-> p, op |-> "logout"]
    /\ UNCHANGED <<config, denied, now, ticks, file, db, pc, loc, generated, stored, successes>>

(* logout() *)
Logout(p) ==
    /\ Idle(p)
    /\ sess' = [sess EXCEPT ![p] = AnonymousSession]
    /\ established' = [established EXCEPT ![p] = NotEstablished]
    /\ ret' = [session |-> p, op |-> "logout"]
    /\ UNCHANGED <<config, denied, now, ticks, file, db, pc, loc, generated, stored, successes>>

(* f"{config.get_logout_url()}?{urlencode(params)}" *)
LogoutUrl ==
    [endpoint |-> <<"https://", config.AUTH0_DOMAIN, "/v2/logout">>,
     client_id |-> config.AUTH0_CLIENT_ID, returnTo |-> config.AUTH0_CALLBACK_URL]

(* get_logout_url() *)
GetLogoutUrl(p) ==
    /\ Idle(p)
    /\ ret' = [session |-> p, op |-> "get_logout_url",
               url |-> LogoutUrl]
    /\ UNCHANGED <<config, denied, now, ticks, file, db, sess, pc, loc, generated, stored, successes, established>>

----------------------------------------------------------------------------
(* One session using every operation of the manager; the state file and
   the users table answer *)
Next ==
    \/ ScriptEnds
    \/ \E d \in TickSteps : Tick(d)
    \/ \E u \in Subs, b \in BOOLEAN : AdminSetActive(u, b)
    \/ \E s \in States : LoginStart(1, s, TRUE)
    \/ LoginSave(1, "ok")
    \/ \E s \in States : CallbackStart(1, s, TRUE)
    \/ CallbackExpiredSave(1, "ok")
    \/ \E resp \in TokenResponses, info \in UserInfos, ok \in BOOLEAN :
          CallbackProvider(1, resp, info, ok)
    \/ CallbackFinish(1, "ok")
    \/ \E ok \in BOOLEAN : IsAuthenticated(1, ok)
    \/ \E ok1 \in BOOLEAN, ok2 \in BOOLEAN : CheckUserRole(1, "user", ok1, ok2)
    \/ Logout(1)
    \/ GetLogoutUrl(1)

Spec == Init /\ [][Next]_vars

(* the token responses and profiles of a provider that answers well or
   refuses the code *)
GoodTokenResponse == [kind |-> "object", access_token |-> "tok", expires_in |-> AbsentNumber]
GoodUserInfo == [sub |-> "auth0|1"]

(* Several sessions (users, tabs, worker processes) running login() and
   handle_callback() at the same time on the one state file *)
NextConcurrent ==
    \/ ScriptEnds
    \/ \E d \in {1, STATE_TTL} : Tick(d)
    \/ \E p \in Sessions, s \in States : LoginStart(p, s, TRUE)
    \/ \E p \in Sessions : LoginSave(p, "ok")
    \/ \E p \in Sessions, s \in States : CallbackStart(p, s, TRUE)
    \/ \E p \in Sessions : CallbackExpiredSave(p, "ok")
    \/ \E p \in Sessions, resp \in {NoTokenResponse, GoodTokenResponse} :
          CallbackProvider(p, resp, GoodUserInfo, TRUE)
    \/ \E p \in Sessions : CallbackFinish(p, "ok")

SpecConcurrent == Init /\ [][NextConcurrent]_vars

----------------------------------------------------------------------------
(* sync_user_to_database called with the profiles a provider can send *)

(* a dict with or without the key *)
OptionalKey(key, values) ==
    {[k \in {} |-> EmptyText]} \cup {[k \in {key} |-> v] : v \in values}

(* profiles that differ in sub and in the fields email and name are
   resolved from *)
NameEmailProfiles ==
    {[sub |-> sub] @@ email @@ username @@ name @@ nickname @@ given :
        sub \in Subs \cup {NoSub, ""},
        email \in OptionalKey("email", {EmptyText, <<"ann", "@", "example.org">>}),
        username \in OptionalKey("preferred_username", {<<"ann.b">>}),
        name \in OptionalKey("name", {EmptyText, <<"Ann B">>}),
        nickname \in OptionalKey("nickname", {<<"annie">>}),
        given \in OptionalKey("given_name", {<<"Ann">>})}

(* profiles that differ in picture and email_verified, with or without a
   role claim of the provider's *)
PictureProfiles ==
    {[sub |-> sub, email |-> <<"bob", "@", "example.org">>, name |-> <<"Bob">>]
        @@ picture @@ verified @@ role :
        sub \in Subs,
        role \in OptionalKey("role", {<<"admin">>}),
        picture \in OptionalKey("picture", {EmptyText, <<"https://cdn/pic">>}),
        verified \in {[k \in {} |-> FALSE]}
                      \cup {[k \in {"email_verified"} |-> b] : b \in BOOLEAN}}

Profiles == NameEmailProfiles \cup PictureProfiles

(* roles an administrator may write into the role column: those of the
   hierarchy and one outside it *)
DbRoles == Roles \cup {"auditor"}

(* one call of sync_user_to_database(user_info) *)
SyncCall(user_info, ok) ==
    /\ Quiet
    /\ db' = SyncUserToDatabase(user_info, ok)
    /\ ret' = [session |-> 0, op |-> "sync_user_to_database", user_info |-> user_info,
               value |-> SyncUserResult(user_info, ok)]
    /\ UNCHANGED <<config, denied, now, ticks, file, sess, pc, loc, generated, stored, successes, established>>

NextSync ==
    \/ ScriptEnds
    \/ Tick(1)
    \/ \E u \in Subs, r \in DbRoles : AdminSetRole(u, r)
    \/ \E u \in Subs, b \in BOOLEAN : AdminSetActive(u, b)
    \/ \E user_info \in Profiles, ok \in BOOLEAN : SyncCall(user_info, ok)

SpecSync == Init /\ [][NextSync]_vars

----------------------------------------------------------------------------
(* One session that logs in with a provider that answers well, while the
   sync or the lookups of the users table may fail and an administrator
   changes role and is_active; every role is asked for *)
NextRoles ==
    \/ ScriptEnds
    \/ \E d \in {1, SESSION_LIFETIME} : Tick(d)
    \/ \E u \in Subs, r \in DbRoles : AdminSetRole(u, r)
    \/ \E u \in Subs, b \in BOOLEAN : AdminSetActive(u, b)
    \/ \E s \in States : LoginStart(1, s, TRUE)
    \/ LoginSave(1, "ok")
    \/ \E s \in States : CallbackStart(1, s, TRUE)
    \/ CallbackExpiredSave(1, "ok")
    \/ \E ok \in BOOLEAN : CallbackProvider(1, GoodTokenResponse, GoodUserInfo, ok)
    \/ CallbackFinish(1, "ok")
    \/ \E ok \in BOOLEAN : IsAuthenticated(1, ok)
    \/ \E q \in DbRoles, ok1 \in BOOLEAN, ok2 \in BOOLEAN : CheckUserRole(1, q, ok1, ok2)
    \/ Logout(1)

SpecRoles == Init /\ [][NextRoles]_vars

----------------------------------------------------------------------------
(* The dashboard started with any settings: one session that tries to log
   in *)
InitConfig == \E c \in Configs : InitWith(c)

NextConfig ==
    \/ ScriptEnds
    \/ Tick(STATE_TTL)
    \/ ConfigError(1)
    \/ \E s \in States : LoginStart(1, s, TRUE)
    \/ LoginSave(1, "ok")
    \/ \E s \in States : CallbackStart(1, s, TRUE)
    \/ CallbackExpiredSave(1, "ok")
    \/ \E resp \in {NoTokenResponse, GoodTokenResponse} :
          CallbackProvider(1, resp, GoodUserInfo, TRUE)
    \/ CallbackFinish(1, "ok")
    \/ \E ok \in BOOLEAN : IsAuthenticated(1, ok)

SpecConfig == InitConfig /\ [][NextConfig]_vars

TypeOK ==
    /\ now \in Nat
    /\ ticks \in 0..MaxTicks
    /\ generated \subseteq States
    /\ DOMAIN file \subseteq States
    /\ \A p \in Sessions : sess[p].authenticated \in BOOLEAN

----------------------------------------------------------------------------
(* Steps of handle_callback, as predicates on a step of session p *)

CallbackStep(p) ==
    \/ \E s \in States, ok \in BOOLEAN : CallbackStart(p, s, ok)
    \/ \E o \in SaveOutcomes : CallbackExpiredSave(p, o)
    \/ \E resp \in TokenResponses, info \in UserInfos, ok \in BOOLEAN :
          CallbackProvider(p, resp, info, ok)
    \/ \E o \in SaveOutcomes : CallbackFinish(p, o)

(* the step on which handle_callback returns (False, message) *)
CallbackFails(p) ==
    /\ Quiet
    /\ ret'.op = "handle_callback" /\ ret'.session = p
    /\ ~ret'.raised /\ ~ret'.success
    /\ CallbackStep(p)

(* the step on which handle_callback returns (True, message) *)
CallbackSucceeds(p) ==
    /\ Quiet
    /\ ret'.op = "handle_callback" /\ ret'.session = p
    /\ ~ret'.raised /\ ret'.success
    /\ CallbackStep(p)

----------------------------------------------------------------------------
(* C1: for every state value s at most one handle_callback(code, s)
   returns success, whatever the interleaving of login() and
   handle_callback() calls of the sessions. *)
C1_AtMostOneSuccessPerState ==
    \A s \in States : successes[s] <= 1

(* C2: the first handle_callback(_, s) within 600 s obtains the verifier
   login() stored for s and removes the entry at lookup: a call that has
   passed the state check and goes on to the provider holds the verifier
   and has left no entry for s in the file, whatever its later outcome. *)
C2_ConsumedAtLookup ==
    \A p \in Sessions :
        pc[p] \in {"cb_provider", "cb_finish"} =>
            /\ loc[p].code_verifier = VerifierOf(loc[p].state)
            /\ loc[p].state \notin DOMAIN file

(* C3: a handle_callback(_, s) that runs later than 600 s after login()
   stored s at t0 makes no token exchange (it never reaches the provider),
   returns a failure, leaves the session's fields alone, and on its return
   the file holds no entry for s. *)
C3_ExpiredStateRejected ==
    [][\A p \in Sessions :
         /\ \A s \in States :
               (/\ CallbackStart(p, s, TRUE)
                /\ s \in DOMAIN stored
                /\ now > stored[s] + 600)
               => /\ pc'[p] \in {"idle", "cb_expired_save"}
                  /\ pc'[p] = "idle" => CallbackFails(p) /\ s \notin DOMAIN file'
                  /\ sess'[p] = sess[p]
         /\ (\E o \in SaveOutcomes : CallbackExpiredSave(p, o))
               => /\ CallbackFails(p)
                  /\ loc[p].state \notin DOMAIN file'
                  /\ sess'[p] = sess[p]]_vars

(* a callback for a state stored more than 600 s earlier has returned *)
C3_Witness ==
    /\ ret.op = "handle_callback"
    /\ ret.message = "Authentication session expired. Please try logging in again."
    /\ \E s \in DOMAIN stored : now > stored[s] + 600 /\ s \notin DOMAIN file

(* C4: handle_callback(code, state) with a state no login() ever stored
   returns (False, "Invalid or expired state parameter") at once, without
   a call to the provider, and changes neither the file nor the session (an
   ANONYMOUS session is left ANONYMOUS). *)
C4_UnknownStateRejected ==
    [][\A p \in Sessions, s \in States :
         (/\ \E ok \in BOOLEAN : CallbackStart(p, s, ok)
          /\ s \notin DOMAIN stored)
         => /\ pc'[p] = "idle"
            /\ ret' = [session |-> p, op |-> "handle_callback", raised |-> FALSE,
                       success |-> FALSE,
                       message |-> "Invalid or expired state parameter"]
            /\ file' = file
            /\ sess' = sess
            /\ sess[p] = AnonymousSession => sess'[p] = AnonymousSession]_vars

(* a callback has been refused while no login() had stored any state *)
C4_Witness ==
    /\ ret.op = "handle_callback"
    /\ ret.message = "Invalid or expired state parameter"
    /\ DOMAIN stored = {}
    /\ sess[ret.session] = AnonymousSession

(* C5: after a handle_callback that succeeded at time T with expires_in =
   E (SESSION_LIFETIME when the provider sent none), and as long as the
   session has not been logged out for another reason, is_authenticated()
   returns true at every time before T + E if the user is active, and false
   at every time after T + E. *)
C5_AuthenticatedUntilExpiry ==
    [][\A p \in Sessions, ok \in BOOLEAN :
         (IsAuthenticated(p, ok) /\ established[p] # NotEstablished)
         => LET T == established[p].at
                E == IF established[p].expires_in = AbsentNumber
                       THEN 3600 ELSE established[p].expires_in
                sub == sess[p].user_info.sub
                active == sub \notin DOMAIN db \/ db[sub].is_active
            IN /\ (now < T + E /\ active) =>
                     (ret'.op = "is_authenticated" /\ ret'.value)
               /\ now > T + E =>
                     (ret'.op = "is_authenticated" /\ ~ret'.value)]_vars

(* is_authenticated() has returned false after the lifetime the provider
   left to the default ran out *)
C5_Witness ==
    /\ ret.op = "is_authenticated"
    /\ ~ret.value
    /\ established[ret.session].at # NoTime
    /\ established[ret.session].expires_in = AbsentNumber
    /\ now > established[ret.session].at + 3600

(* C6: is_authenticated() returns true exactly when the session flag is
   true, token_expires_at is unset or not yet passed, and the users table
   has no row for the session's sub (or the lookup fails) or the row is
   active; when it returns false on a session whose flag was true, every
   session field has been cleared; when it returns true nothing changed. *)
C6_IsAuthenticatedExactly ==
    [][\A p \in Sessions, ok \in BOOLEAN :
         IsAuthenticated(p, ok)
         => LET sub == sess[p].user_info.sub
                exp == sess[p].token_expires_at
                record == ok /\ sub \in DOMAIN db
                expected == /\ sess[p].authenticated
                            /\ (exp = NoTime \/ ~(now > exp))
                            /\ (~record \/ db[sub].is_active)
            IN /\ ret'.op = "is_authenticated" /\ ret'.session = p
               /\ ret'.value = expected
               /\ (~ret'.value /\ sess[p].authenticated) =>
                     sess'[p] = [authenticated |-> FALSE, user_info |-> NoUserInfo,
                                 access_token |-> None, token_expires_at |-> NoTime]
               /\ ret'.value => sess'[p] = sess[p]]_vars

(* is_authenticated() has returned false for an inactive user and cleared
   a session that was within its lifetime *)
C6_Witness ==
    /\ ret.op = "is_authenticated"
    /\ ~ret.value
    /\ sess[ret.session] = AnonymousSession
    /\ \E u \in DOMAIN db : ~db[u].is_active
    /\ \E s \in States : successes[s] > 0
    /\ ticks = 0

(* token_expires_at of session p changes on this step *)
ExpiryChanges(p) == sess'[p].token_expires_at # sess[p].token_expires_at

(* C7 as claimed: token_expires_at is written only by a successful
   handle_callback (to now + expires_in) and by logout() (to null);
   is_authenticated() returning true, check_user_role(), login(),
   get_logout_url() and a failed handle_callback leave it unchanged. *)
C7_OnlyCallbackAndLogoutWrite ==
    [][\A p \in Sessions :
         /\ ExpiryChanges(p) =>
               \/ CallbackSucceeds(p)
               \/ sess'[p].token_expires_at = NoTime
         /\ (\E q \in Roles, ok1 \in BOOLEAN, ok2 \in BOOLEAN :
                CheckUserRole(p, q, ok1, ok2)) => ~ExpiryChanges(p)
         /\ ((\E ok \in BOOLEAN : IsAuthenticated(p, ok)) /\ ret'.value)
               => ~ExpiryChanges(p)
         /\ CallbackFails(p) => ~ExpiryChanges(p)]_vars

(* C7 as amended: token_expires_at changes only on a successful
   handle_callback, to now + expires_in, and to null on logout(), also the
   logout() that is_authenticated() and check_user_role() make when they
   find the token expired or the user inactive; is_authenticated()
   returning true, check_user_role() that finds the session authenticated,
   login(), get_logout_url() and a failed handle_callback leave it
   unchanged, so no activity moves it to a later time. *)
C7_ExpiryNeverExtended ==
    [][\A p \in Sessions :
         /\ ExpiryChanges(p) =>
               \/ /\ CallbackSucceeds(p)
                  /\ \E E \in {3600} \cup ExpiresInValues :
                        sess'[p].token_expires_at = now + E
               \/ /\ sess'[p].token_expires_at = NoTime
                  /\ \/ Logout(p)
                     \/ \E ok \in BOOLEAN :
                           /\ IsAuthenticated(p, ok) \/ \E q \in Roles, ok2 \in BOOLEAN :
                                                           CheckUserRole(p, q, ok, ok2)
                           /\ ~IsAuthenticatedValue(sess[p], now, ok)
         /\ ((\E ok \in BOOLEAN : IsAuthenticated(p, ok)) /\ ret'.value)
               => ~ExpiryChanges(p)
         /\ CallbackFails(p) => ~ExpiryChanges(p)
         /\ (\E s \in States, ok \in BOOLEAN : LoginStart(p, s, ok)) => ~ExpiryChanges(p)
         /\ (\E o \in SaveOutcomes : LoginSave(p, o)) => ~ExpiryChanges(p)
         /\ GetLogoutUrl(p) => ~ExpiryChanges(p)]_vars

(* check_user_role() has run on an authenticated session within its
   lifetime and the expiry is still the one the callback set *)
C7_Witness ==
    /\ ret.op = "check_user_role"
    /\ sess[ret.session].authenticated
    /\ established[ret.session].at # NoTime
    /\ sess[ret.session].token_expires_at = established[ret.session].at + 1
    /\ now > established[ret.session].at

(* C8 as claimed: every failure of handle_callback ends with the session
   ANONYMOUS, whatever state the session was in before the call. *)
C8_FailureEndsAnonymous ==
    [][\A p \in Sessions :
         CallbackFails(p) => sess'[p] = AnonymousSession]_vars

(* C8 as amended: every failure return of handle_callback (unknown state,
   expired state, missing verifier, token exchange failure, missing
   access_token, profile fetch failure) leaves all four session fields as
   they were before the call, none of them set by it: a session that was
   ANONYMOUS is still ANONYMOUS, one that was authenticated stays so. *)
C8_FailureLeavesSession ==
    [][\A p \in Sessions :
         /\ CallbackFails(p) => sess'[p] = sess[p]
         /\ (pc'[p] \in {"cb_expired_save", "cb_provider", "cb_finish"} /\ CallbackStep(p))
               => sess'[p] = sess[p]]_vars

(* handle_callback has failed at the profile fetch in a session that was
   ANONYMOUS and still is *)
C8_Witness ==
    /\ ret.op = "handle_callback"
    /\ ret.message = "Failed to retrieve user info from Auth0"
    /\ sess[ret.session] = AnonymousSession

(* C9: handle_callback never raises: every call ends with a (success,
   message) pair, also on malformed provider responses. *)
C9_NeverRaises ==
    ret.op = "handle_callback" => ~ret.raised

(* C10: whenever state lookup, token exchange and profile fetch have
   succeeded (the call has reached the directory sync), handle_callback
   returns success and the session is authenticated, whatever the sync
   did. *)
C10_SyncNeverAborts ==
    [][\A p \in Sessions :
         (pc[p] = "cb_finish" /\ pc'[p] = "idle")
         => /\ ret'.op = "handle_callback" /\ ~ret'.raised /\ ret'.success
            /\ sess'[p].authenticated]_vars

----------------------------------------------------------------------------
(* the step on which a call of sync_user_to_database returns *)
SyncReturns(ok) ==
    /\ Quiet
    /\ ret'.op = "sync_user_to_database"
    /\ SyncCall(ret'.user_info, ok)

(* C11: the table holds one row per sub, the one keyed by it: a sync adds
   at most the row of its own sub and leaves every other row alone; a
   successful sync for a sub that has a row writes the profile's email, name
   and picture, email_verified and last_login = now into it and leaves role,
   is_active and created_at as they were, so that role and is_active of a
   row only change when an administrator sets them. *)
C11_UpdateKeepsRoleAndActive ==
    [][/\ \A ok \in BOOLEAN :
            SyncReturns(ok) =>
              LET user_info == ret'.user_info
                  sub == user_info.sub
              IN /\ DOMAIN db' \subseteq DOMAIN db \cup {sub}
                 /\ \A u \in DOMAIN db \ {sub} : u \in DOMAIN db' /\ db'[u] = db[u]
                 /\ ret'.value => sub \in DOMAIN db'
                 /\ (ret'.value /\ sub \in DOMAIN db) =>
                       /\ db'[sub].role = db[sub].role
                       /\ db'[sub].is_active = db[sub].is_active
                       /\ db'[sub].created_at = db[sub].created_at
                       /\ db'[sub].last_login = now
                       /\ ("email" \in DOMAIN user_info /\ user_info["email"] # << >>)
                             => db'[sub].email = user_info["email"]
                       /\ ("name" \in DOMAIN user_info /\ user_info["name"] # << >>)
                             => db'[sub].name = user_info["name"]
                       /\ db'[sub].picture =
                             (IF "picture" \in DOMAIN user_info
                                THEN user_info["picture"] ELSE << >>)
                       /\ db'[sub].email_verified =
                             ("email_verified" \in DOMAIN user_info
                                /\ user_info["email_verified"])
       /\ \A u \in DOMAIN db :
            (u \in DOMAIN db' /\ db'[u].role # db[u].role)
               => \E r \in DbRoles : AdminSetRole(u, r)
       /\ \A u \in DOMAIN db :
            (u \in DOMAIN db' /\ db'[u].is_active # db[u].is_active)
               => \E b \in BOOLEAN : AdminSetActive(u, b)]_vars

(* a later sync has updated the email and last_login of a row an
   administrator had made an inactive admin, and it still is one *)
C11_Witness ==
    /\ ret.op = "sync_user_to_database"
    /\ ret.value
    /\ ret.user_info.sub \in DOMAIN db
    /\ LET row == db[ret.user_info.sub]
       IN /\ row.role = "admin"
          /\ ~row.is_active
          /\ row.created_at < row.last_login
          /\ row.last_login = now
          /\ row.email = <<"bob", "@", "example.org">>
          /\ row.picture = <<"https://cdn/pic">>
          /\ row.email_verified

(* C12: a successful sync for a sub that has no row inserts one with role
   "user", is_active true and created_at = last_login = now, whatever the
   profile carries; no step creates a row with another role. *)
C12_InsertedAsUser ==
    [][/\ \A ok \in BOOLEAN :
            (SyncReturns(ok) /\ ret'.value /\ ret'.user_info.sub \notin DOMAIN db) =>
              LET row == db'[ret'.user_info.sub]
              IN /\ row.role = "user"
                 /\ row.is_active = TRUE
                 /\ row.created_at = now
                 /\ row.last_login = now
       /\ \A u \in DOMAIN db' \ DOMAIN db :
            db'[u].role = "user" /\ db'[u].is_active]_vars

(* a profile carrying a role claim "admin" has just been inserted, as a
   user *)
C12_Witness ==
    /\ ret.op = "sync_user_to_database"
    /\ ret.value
    /\ "role" \in DOMAIN ret.user_info
    /\ db[ret.user_info.sub].role = "user"
    /\ db[ret.user_info.sub].created_at = now
    /\ now > 0

(* C13: sync_user_to_database with a profile whose sub is missing or empty
   returns False and leaves the users table as it was. *)
C13_NoSubNoWrite ==
    [][\A ok \in BOOLEAN :
         (SyncReturns(ok) /\ ret'.user_info.sub \in {NoSub, ""})
            => ~ret'.value /\ db' = db]_vars

(* a sync of a profile without sub has failed on a table that holds a row *)
C13_Witness ==
    /\ ret.op = "sync_user_to_database"
    /\ ret.user_info.sub = NoSub
    /\ "email" \in DOMAIN ret.user_info
    /\ ~ret.value
    /\ DOMAIN db # {}

(* C14 as claimed: a sync whose statements run and whose profile has a sub
   succeeds with or without an email, and the stored email is profile.email
   if non-empty, else profile.preferred_username if non-empty, else
   "{auth0_id}@unknown". *)
C14_EmailOrUnknown ==
    [][\A ok \in BOOLEAN :
         (SyncReturns(ok) /\ ok /\ ret'.user_info.sub \notin {NoSub, ""}) =>
           LET user_info == ret'.user_info
               sub == user_info.sub
           IN /\ ret'.value
              /\ db'[sub].email =
                    (IF "email" \in DOMAIN user_info /\ user_info["email"] # << >>
                       THEN user_info["email"]
                     ELSE IF "preferred_username" \in DOMAIN user_info
                             /\ user_info["preferred_username"] # << >>
                       THEN user_info["preferred_username"]
                     ELSE <<sub, "@", "unknown">>)]_vars

(* C14 as amended: the same, the synthesized value being
   "{auth0_id}@unknown.auth0". *)
C14_EmailOrUnknownAuth0 ==
    [][\A ok \in BOOLEAN :
         (SyncReturns(ok) /\ ok /\ ret'.user_info.sub \notin {NoSub, ""}) =>
           LET user_info == ret'.user_info
               sub == user_info.sub
           IN /\ ret'.value
              /\ db'[sub].email =
                    (IF "email" \in DOMAIN user_info /\ user_info["email"] # << >>
                       THEN user_info["email"]
                     ELSE IF "preferred_username" \in DOMAIN user_info
                             /\ user_info["preferred_username"] # << >>
                       THEN user_info["preferred_username"]
                     ELSE <<sub, "@", "unknown.auth0">>)]_vars

(* a profile with an empty email and no preferred_username has been synced
   and its row holds the synthesized email *)
C14_Witness ==
    /\ ret.op = "sync_user_to_database"
    /\ ret.value
    /\ "email" \in DOMAIN ret.user_info
    /\ ret.user_info["email"] = << >>
    /\ "preferred_username" \notin DOMAIN ret.user_info
    /\ db[ret.user_info.sub].email = <<"auth0|1", "@", "unknown.auth0">>

(* C15 as claimed: the stored name is the first non-empty of profile.name,
   profile.nickname, profile.given_name; otherwise the local part of the
   email stored in the row, a synthesized one included. *)
C15_NameFromStoredEmail ==
    [][\A ok \in BOOLEAN :
         (SyncReturns(ok) /\ ret'.value) =>
           LET user_info == ret'.user_info
               row == db'[user_info.sub]
           IN row.name =
                (IF "name" \in DOMAIN user_info /\ user_info["name"] # << >>
                   THEN user_info["name"]
                 ELSE IF "nickname" \in DOMAIN user_info /\ user_info["nickname"] # << >>
                   THEN user_info["nickname"]
                 ELSE IF "given_name" \in DOMAIN user_info /\ user_info["given_name"] # << >>
                   THEN user_info["given_name"]
                 ELSE LocalPart(row.email))]_vars

(* C15 as amended: the stored name is the first non-empty of profile.name,
   profile.nickname, profile.given_name; otherwise the local part of the
   email the profile gives (email, else preferred_username); when the
   profile gives neither, so that the stored email is the synthesized one,
   it is the literal "Unknown User". *)
C15_NameFromProfileEmail ==
    [][\A ok \in BOOLEAN :
         (SyncReturns(ok) /\ ret'.value) =>
           LET user_info == ret'.user_info
               row == db'[user_info.sub]
               given == /\ "email" \in DOMAIN user_info
                        /\ user_info["email"] # << >>
               username == /\ "preferred_username" \in DOMAIN user_info
                           /\ user_info["preferred_username"] # << >>
           IN row.name =
                (IF "name" \in DOMAIN user_info /\ user_info["name"] # << >>
                   THEN user_info["name"]
                 ELSE IF "nickname" \in DOMAIN user_info /\ user_info["nickname"] # << >>
                   THEN user_info["nickname"]
                 ELSE IF "given_name" \in DOMAIN user_info /\ user_info["given_name"] # << >>
                   THEN user_info["given_name"]
                 ELSE IF given THEN LocalPart(user_info["email"])
                 ELSE IF username THEN LocalPart(user_info["preferred_username"])
                 ELSE <<"Unknown User">>)]_vars

(* a profile with an empty name and an email but no other name has been
   synced and its row is named after the local part of the email *)
C15_Witness ==
    /\ ret.op = "sync_user_to_database"
    /\ ret.value
    /\ "name" \in DOMAIN ret.user_info
    /\ ret.user_info["name"] = << >>
    /\ db[ret.user_info.sub].email = <<"ann", "@", "example.org">>
    /\ db[ret.user_info.sub].name = <<"ann">>

(* C16: when is_authenticated() holds and the lookup returns the row of the
   session's sub, with role r, check_user_role(q) returns true exactly when
   q is one of admin, analyst, user for r = admin, one of analyst, user for
   r = analyst, and user for every other r, a role outside the table
   included. *)
C16_RoleHierarchy ==
    [][\A p \in Sessions, q \in DbRoles, ok1 \in BOOLEAN, ok2 \in BOOLEAN :
         (/\ CheckUserRole(p, q, ok1, ok2)
          /\ IsAuthenticatedValue(sess[p], now, ok1)
          /\ ok2
          /\ sess[p].user_info.sub \in DOMAIN db)
         => LET r == db[sess[p].user_info.sub].role
            IN /\ ret'.op = "check_user_role"
               /\ ret'.value =
                     (\/ r = "admin" /\ q \in {"admin", "analyst", "user"}
                      \/ r = "analyst" /\ q \in {"analyst", "user"}
                      \/ r \notin {"admin", "analyst"} /\ q = "user")
               /\ (r = "user" /\ q = "admin") => ~ret'.value
               /\ (r = "admin" /\ q = "user") => ret'.value]_vars

(* check_user_role has granted an authenticated session whose row has a
   role outside the table what a user is granted *)
C16_Witness ==
    /\ ret.op = "check_user_role"
    /\ ret.value
    /\ sess[ret.session].authenticated
    /\ sess[ret.session].user_info.sub \in DOMAIN db
    /\ db[sess[ret.session].user_info.sub].role = "auditor"

(* C17: check_user_role(q) returns false for every q when is_authenticated()
   is false; when is_authenticated() is true but the session's sub has no
   row or the lookup fails, it returns false for every q, "user" included,
   and leaves the session authenticated as it was: with no row at all,
   is_authenticated() goes on returning true. *)
C17_NoRecordNoRole ==
    [][\A p \in Sessions, q \in DbRoles, ok1 \in BOOLEAN, ok2 \in BOOLEAN :
         CheckUserRole(p, q, ok1, ok2) =>
           /\ ret'.op = "check_user_role"
           /\ ~IsAuthenticatedValue(sess[p], now, ok1) =>
                 ~ret'.value /\ ~sess'[p].authenticated
           /\ (/\ IsAuthenticatedValue(sess[p], now, ok1)
               /\ ~(ok2 /\ sess[p].user_info.sub \in DOMAIN db)) =>
                 /\ ~ret'.value
                 /\ sess'[p] = sess[p]
                 /\ sess'[p].authenticated
                 /\ sess[p].user_info.sub \notin DOMAIN db =>
                       \A ok \in BOOLEAN : IsAuthenticatedValue(sess'[p], now, ok)]_vars

(* check_user_role has refused an authenticated session whose user was
   never synced *)
C17_Witness ==
    /\ ret.op = "check_user_role"
    /\ ~ret.value
    /\ sess[ret.session].authenticated
    /\ sess[ret.session].user_info.sub \notin DOMAIN db
    /\ \A ok \in BOOLEAN : IsAuthenticatedValue(sess[ret.session], now, ok)

(* C18 as claimed: logout() clears every session field and returns the
   provider logout URL built from client_id and the returnTo address; after
   it is_authenticated() is false; the state file and the users table are
   unchanged. *)
C18_LogoutReturnsUrl ==
    [][\A p \in Sessions :
         Logout(p) =>
           /\ sess'[p] = AnonymousSession
           /\ "url" \in DOMAIN ret'
           /\ ret'.url.client_id = config.AUTH0_CLIENT_ID
           /\ ret'.url.returnTo = config.AUTH0_CALLBACK_URL
           /\ \A ok \in BOOLEAN : ~IsAuthenticatedValue(sess'[p], now, ok)
           /\ file' = file /\ db' = db]_vars

(* C18 as amended: logout() clears every session field and returns nothing;
   after it is_authenticated() is false, and the state file and the users
   table are unchanged. The provider logout URL, built from client_id and
   the returnTo address, is what get_logout_url() returns, which changes
   nothing. *)
C18_LogoutClears ==
    [][\A p \in Sessions :
         /\ Logout(p) =>
               /\ sess'[p] = [authenticated |-> FALSE, user_info |-> NoUserInfo,
                              access_token |-> None, token_expires_at |-> NoTime]
               /\ ret' = [session |-> p, op |-> "logout"]
               /\ \A ok \in BOOLEAN : ~IsAuthenticatedValue(sess'[p], now, ok)
               /\ file' = file /\ db' = db
               /\ \A q \in Sessions \ {p} : sess'[q] = sess[q]
         /\ GetLogoutUrl(p) =>
               /\ ret'.op = "get_logout_url"
               /\ ret'.url.client_id = config.AUTH0_CLIENT_ID
               /\ ret'.url.returnTo = config.AUTH0_CALLBACK_URL
               /\ ret'.url.endpoint = <<"https://", config.AUTH0_DOMAIN, "/v2/logout">>
               /\ sess' = sess /\ file' = file /\ db' = db]_vars

(* logout() has returned in a session a callback had authenticated, with a
   pending state in the file and a row in the users table *)
C18_Witness ==
    /\ ret.op = "logout"
    /\ sess[ret.session] = AnonymousSession
    /\ \E s \in States : successes[s] > 0
    /\ DOMAIN file # {}
    /\ DOMAIN db # {}

(* C19: when AUTH0_DOMAIN, AUTH0_CLIENT_ID, AUTH0_CLIENT_SECRET or
   AUTH0_CALLBACK_URL is empty, no login flow starts: no state is generated
   or stored, no handler of the manager runs or returns, no session is
   authenticated and the users table stays empty; what a script run reports
   is the configuration error, naming a setting that is empty. *)
C19_ConfigFailsClosed ==
    (\/ config.AUTH0_DOMAIN = ""
     \/ config.AUTH0_CLIENT_ID = ""
     \/ config.AUTH0_CLIENT_SECRET = ""
     \/ config.AUTH0_CALLBACK_URL = "")
    => /\ generated = {}
       /\ DOMAIN file = {}
       /\ DOMAIN stored = {}
       /\ DOMAIN db = {}
       /\ \A p \in Sessions : pc[p] = "idle" /\ sess[p] = AnonymousSession
       /\ ret.op \in {"none", "config_error"}
       /\ ret.op = "config_error" =>
             \/ ret.message = "AUTH0_DOMAIN is not configured" /\ config.AUTH0_DOMAIN = ""
             \/ ret.message = "AUTH0_CLIENT_ID is not configured" /\ config.AUTH0_CLIENT_ID = ""
             \/ ret.message = "AUTH0_CLIENT_SECRET is not configured"
                   /\ config.AUTH0_CLIENT_SECRET = ""
             \/ ret.message = "AUTH0_CALLBACK_URL is not configured"
                   /\ config.AUTH0_CALLBACK_URL = ""

(* a script run has stopped on a client secret that is empty while the
   other settings are given *)
C19_Witness ==
    /\ ret.op = "config_error"
    /\ ret.message = "AUTH0_CLIENT_SECRET is not configured"
    /\ config.AUTH0_CLIENT_SECRET = ""
    /\ config.AUTH0_DOMAIN # ""
    /\ config.AUTH0_CLIENT_ID # ""
    /\ config.AUTH0_CALLBACK_URL # ""

(* C20 as claimed: every write to the state file first prunes: the states
   a handler keeps after reading the file, to write them back, hold no
   entry older than 600 s, in login() and in handle_callback alike; after a
   login() the file holds the entries login() kept and its own, no more than
   logins were stored in the 600 s before it read the file, and its own. *)
C20_EveryWritePrunes ==
    [][\A p \in Sessions :
         /\ (\/ \E s \in States : LoginStart(p, s, TRUE)
             \/ \E s \in States : CallbackStart(p, s, TRUE) /\ pc'[p] # "idle") =>
               /\ \A x \in DOMAIN loc'[p].states :
                     now - loc'[p].states[x].timestamp[2] <= 600
               /\ Cardinality(DOMAIN loc'[p].states) <=
                     Cardinality({x \in DOMAIN stored : now - stored[x] <= 600})
         /\ LoginSave(p, "ok") =>
               DOMAIN file' = DOMAIN loc[p].states \cup {loc[p].state}]_vars

(* C20 as amended: login() prunes before it writes, handle_callback does
   not: the states login() keeps after reading the file hold no entry older
   than 600 s at that moment, and no more entries than logins were stored in
   the 600 s before it; what login() then writes is these entries and its
   own, stamped with the time of the write. *)
C20_LoginPrunes ==
    [][\A p \in Sessions :
         /\ (\E s \in States : LoginStart(p, s, TRUE)) =>
               /\ \A x \in DOMAIN loc'[p].states :
                     /\ x \in DOMAIN file
                     /\ loc'[p].states[x] = file[x]
                     /\ now - file[x].timestamp[2] <= 600
               /\ \A x \in DOMAIN file :
                     now - file[x].timestamp[2] <= 600 => x \in DOMAIN loc'[p].states
               /\ Cardinality(DOMAIN loc'[p].states) <=
                     Cardinality({x \in DOMAIN stored : now - stored[x] <= 600})
         /\ LoginSave(p, "ok") =>
               /\ DOMAIN file' = DOMAIN loc[p].states \cup {loc[p].state}
               /\ file'[loc[p].state].timestamp[2] = now
               /\ \A x \in DOMAIN loc[p].states \ {loc[p].state} :
                     file'[x] = loc[p].states[x]]_vars

(* login() has returned and the state stored more than 600 s before, never
   used by a callback, is no longer in the file *)
C20_Witness ==
    /\ ret.op = "login"
    /\ DOMAIN file # {}
    /\ \E x \in DOMAIN stored :
          /\ x \notin DOMAIN file
          /\ successes[x] = 0
          /\ now - stored[x] > 600
    /\ \A x \in DOMAIN file : file[x].timestamp[2] = now

(* C21: operations on the flow-state store exclude one another: when two
   login() calls overlap, no update is lost. The write of a login() keeps
   every entry another login() stored in the last 600 s that no callback
   has used, also one stored after this login() read the file, so that both
   states are in the store once both calls have returned. *)
C21_NoLostUpdate ==
    [][\A q \in Sessions :
         LoginSave(q, "ok") =>
            \A x \in (DOMAIN stored \cap DOMAIN file) \ {loc[q].state} :
               (/\ successes[x] = 0
                /\ now - stored[x] <= STATE_TTL
                /\ file[x] = LoginEntry(VerifierOf(x), stored[x]))
               => (x \in DOMAIN file' /\ file'[x] = file[x])]_vars

(* C26: in every reachable state a session with authenticated = true has
   user_info, access_token and token_expires_at set, also after a
   handle_callback that stopped while computing the expiry. *)
C26_AuthenticatedHasAllFields ==
    \A p \in Sessions :
        sess[p].authenticated =>
            /\ sess[p].user_info # NoUserInfo
            /\ sess[p].access_token # None
            /\ sess[p].token_expires_at # NoTime

(* C28: a handle_callback that removes its state, on success or on expiry,
   removes that one entry only: every other entry of the file at the moment
   of the write-back is in the file afterwards, unchanged, also one a
   login() wrote after the callback read the file. *)
C28_RemovesExactlyOne ==
    [][\A p \in Sessions :
         (\/ CallbackExpiredSave(p, "ok")
          \/ CallbackFinish(p, "ok") /\ ret'.success) =>
            \A x \in DOMAIN file \ {loc[p].state} :
               x \in DOMAIN file' /\ file'[x] = file[x]]_vars

(* C30: loss of authentication is sticky: once is_authenticated() has
   returned false in a session, every later is_authenticated() and
   check_user_role() of the session returns false until a handle_callback
   succeeds in it. *)
C30_DenialIsSticky ==
    [][\A p \in Sessions :
         (/\ denied[p]
          /\ Quiet
          /\ ret'.session = p
          /\ ret'.op \in {"is_authenticated", "check_user_role"})
         => ~ret'.value]_vars

----------------------------------------------------------------------------
(* One session that logs in and calls back while reading or writing the
   state file may fail: _load_states then returns {} and _save_states only
   logs the exception *)
NextFaults ==
    \/ ScriptEnds
    \/ \E d \in {1, STATE_TTL} : Tick(d)
    \/ \E s \in States, loadOk \in BOOLEAN : LoginStart(1, s, loadOk)
    \/ \E o \in SaveOutcomes : LoginSave(1, o)
    \/ \E s \in States, loadOk \in BOOLEAN : CallbackStart(1, s, loadOk)
    \/ \E o \in SaveOutcomes : CallbackExpiredSave(1, o)
    \/ \E resp \in {NoTokenResponse, GoodTokenResponse} :
          CallbackProvider(1, resp, GoodUserInfo, TRUE)
    \/ \E o \in SaveOutcomes : CallbackFinish(1, o)

SpecFaults == Init /\ [][NextFaults]_vars

(* C25: login() only adds to the live attempts: every entry that is in the
   file before the call and at most 600 s old is in the file after the call
   with the same verifier and timestamp, so that a later login never
   invalidates an earlier pending attempt. (One session runs here, so the
   file login() finds when it writes is the file before the call.) *)
C25_LoginOnlyAdds ==
    [][\A p \in Sessions :
         (\E o \in SaveOutcomes : LoginSave(p, o)) =>
            \A x \in DOMAIN file :
               (now - FromIsoFormat(file[x].timestamp) <= STATE_TTL)
               => (x \in DOMAIN file' /\ file'[x] = file[x])]_vars

(* C27: whenever login() has returned an authorization URL, the state in
   the URL is in the file together with the verifier whose challenge is in
   the URL, also when reading or writing the state file failed. *)
C27_ReturnedStateIsStored ==
    ret.op = "login" =>
        /\ ret.url.state \in DOMAIN file
        /\ ret.url.code_challenge = ChallengeOf(file[ret.url.state].code_verifier)

----------------------------------------------------------------------------
(* One session that logs in and calls back, with the progress the code
   guarantees: a handler that has been called runs its own statements to
   the end (the file is read and written, the session fields are set, the
   script handles the result). requests.post and requests.get are called
   without timeout=, so the step that waits for the identity provider is
   taken only when the provider answers or the connection breaks: nothing
   in the code forces it. *)
NextLive ==
    \/ ScriptEnds
    \/ \E d \in {1, STATE_TTL} : Tick(d)
    \/ \E s \in States : LoginStart(1, s, TRUE)
    \/ LoginSave(1, "ok")
    \/ \E s \in States : CallbackStart(1, s, TRUE)
    \/ CallbackExpiredSave(1, "ok")
    \/ \E resp \in {NoTokenResponse, GoodTokenResponse} :
          CallbackProvider(1, resp, GoodUserInfo, TRUE)
    \/ CallbackFinish(1, "ok")

SpecLive ==
    /\ Init
    /\ [][NextLive]_vars
    /\ WF_vars(ScriptEnds)
    /\ WF_vars(LoginSave(1, "ok"))
    /\ WF_vars(CallbackExpiredSave(1, "ok"))
    /\ WF_vars(CallbackFinish(1, "ok"))

(* C22: no operation blocks for ever: a handle_callback that has started
   always returns a result, also when the identity provider never answers
   the token or the userinfo request. *)
C22_CallbackTerminates ==
    \A p \in Sessions :
        (pc[p] \in {"cb_expired_save", "cb_provider", "cb_finish"}) ~> (pc[p] = "idle")

(* C29: pruning and callback validation agree on expiry: at any time
   login's cleanup drops an entry of the file exactly when its age is
   strictly greater than 600 s, and handle_callback rejects an entry as
   expired exactly then; an entry exactly 600 s old is kept by the cleanup
   and accepted by handle_callback. *)
C29_CleanupAgreesWithCallback ==
    [][\A p \in Sessions :
         /\ (\E s \in States : LoginStart(p, s, TRUE)) =>
               \A x \in DOMAIN file :
                  (x \notin DOMAIN loc'[p].states)
                     <=> (now - FromIsoFormat(file[x].timestamp) > 600)
         /\ \A s \in DOMAIN file :
               CallbackStart(p, s, TRUE) =>
                  /\ (pc'[p] = "cb_expired_save")
                        <=> (now - FromIsoFormat(file[s].timestamp) > 600)
                  /\ (pc'[p] = "cb_provider")
                        <=> (now - FromIsoFormat(file[s].timestamp) <= 600)]_vars

(* a callback has been accepted for an entry exactly 600 s old, which a
   login() at that same moment kept in the file next to its own *)
C29_Witness ==
    \E p \in Sessions :
        /\ pc[p] = "cb_provider"
        /\ now - FromIsoFormat(loc[p].states[loc[p].state].timestamp) = 600
        /\ \E y \in DOMAIN loc[p].states \ {loc[p].state} :
              FromIsoFormat(loc[p].states[y].timestamp) = now

----------------------------------------------------------------------------
(* generate_pkce_pair on the random bytes it may draw, and login() *)

ByteValues == {0, 62, 97, 255}
Tokens == UNION {[1..n -> ByteValues] : n \in 1..MaxTokenBytes}

(* one call of generate_pkce_pair() *)
PkceCall(token) ==
    /\ Quiet
    /\ ret' = [session |-> 0, op |-> "generate_pkce_pair", token |-> token,
               pair |-> GeneratePkcePair(token)]
    /\ UNCHANGED <<config, denied, now, ticks, file, db, sess, pc, loc, generated, stored,
                   successes, established>>

NextPkce ==
    \/ ScriptEnds
    \/ \E token \in Tokens : PkceCall(token)
    \/ \E s \in States : LoginStart(1, s, TRUE)
    \/ LoginSave(1, "ok")

SpecPkce == Init /\ [][NextPkce]_vars

(* C23: for every pair generate_pkce_pair returns, the challenge is the
   URL-safe base64 encoding, without padding, of the SHA-256 digest of the
   verifier's ASCII bytes (decoding the challenge without padding gives
   that digest back) and the verifier contains no '='; the challenge in the
   authorization URL login() returns is the one derived from the verifier
   the file holds for the URL's state. *)
C23_PkcePair ==
    LET RECURSIVE Decode(_)
        Decode(text) ==
            IF Len(text) < 2 THEN << >>
            ELSE IF Len(text) = 2
              THEN <<text[1] * 4 + text[2] \div 16>>
            ELSE IF Len(text) = 3
              THEN <<text[1] * 4 + text[2] \div 16,
                     (text[2] % 16) * 16 + text[3] \div 4>>
            ELSE <<text[1] * 4 + text[2] \div 16,
                   (text[2] % 16) * 16 + text[3] \div 4,
                   (text[3] % 4) * 64 + text[4]>>
                 \o Decode(SubSeq(text, 5, Len(text)))
        Unpadded(text) == \A i \in 1..Len(text) : text[i] \in 0..63
        Derived(challenge, verifier) ==
            /\ Unpadded(challenge)
            /\ Decode(challenge) = Sha256(Utf8Encode(verifier))
            /\ \E n \in 0..2 :
                  B64Encode(Sha256(Utf8Encode(verifier))) = challenge \o [i \in 1..n |-> Pad]
    IN /\ ret.op = "generate_pkce_pair" =>
             /\ Unpadded(ret.pair.code_verifier)
             /\ Decode(ret.pair.code_verifier) = ret.token
             /\ Derived(ret.pair.code_challenge, ret.pair.code_verifier)
       /\ ret.op = "login" =>
             /\ ret.url.state \in DOMAIN file
             /\ Unpadded(file[ret.url.state].code_verifier)
             /\ Derived(ret.url.code_challenge, file[ret.url.state].code_verifier)

(* generate_pkce_pair has returned a pair made of random bytes that, like
   32 of them, leave two bytes over: base64 padded them with a '=' that the
   verifier has lost *)
C23_Witness ==
    /\ ret.op = "generate_pkce_pair"
    /\ Len(ret.token) = 2
    /\ B64Encode(ret.token) = ret.pair.code_verifier \o <<Pad>>
    /\ Len(ret.pair.code_challenge) >= 3

----------------------------------------------------------------------------
(* tickets_by_status on the tables load_tickets gives *)

(* A cell of the status column as the file or the table gives it: missing
   (NaN, None) or a text, the sequence of its characters *)
NaN == [null |-> TRUE, text |-> << >>]
Text(chars) == [null |-> FALSE, text |-> chars]

RawStatuses ==
    {NaN, Text(<<"o", "k">>), Text(<<"O", "K">>), Text(<<" ", "o", "k">>),
     Text(<<"n", "o">>)}

(* tables of up to MaxTickets tickets; only the status column is kept *)
RawTables == UNION {[1..n -> [status : RawStatuses]] : n \in 0..MaxTickets}

Upper(c) ==
    CASE c = "o" -> "O" [] c = "k" -> "K" [] c = "n" -> "N" [] c = "a" -> "A"
      [] OTHER -> c

Lower(c) ==
    CASE c = "O" -> "o" [] c = "K" -> "k" [] c = "N" -> "n" [] c = "A" -> "a"
      [] OTHER -> c

(* .str.strip() *)
RECURSIVE Strip(_)
Strip(chars) ==
    IF Len(chars) > 0 /\ chars[1] = " " THEN Strip(SubSeq(chars, 2, Len(chars)))
    ELSE IF Len(chars) > 0 /\ chars[Len(chars)] = " "
      THEN Strip(SubSeq(chars, 1, Len(chars) - 1))
    ELSE chars

(* .str.title(): a letter is upper case after a character that is no
   letter and at the start, lower case elsewhere *)
Title(chars) ==
    [i \in 1..Len(chars) |->
        IF i = 1 \/ chars[i - 1] = " " THEN Upper(chars[i]) ELSE Lower(chars[i])]

(* .astype(str): a missing value becomes the text 'nan' *)
AsTypeStr(cell) == IF cell.null THEN <<"n", "a", "n">> ELSE cell.text

(* a cleaning that leaves a missing status missing *)
CleanStatusKeepsMissing(cell) ==
    IF cell.null THEN cell ELSE Text(Title(Strip(cell.text)))

(* df[col].astype(str).str.strip().str.title() on one cell *)
CleanStatus(cell) == Text(Title(Strip(AsTypeStr(cell))))

(* clean_ticket_data, on the status column *)
CleanTicketData(df) == [i \in DOMAIN df |-> [status |-> CleanStatus(df[i].status)]]

(* df["status"].value_counts(): the number of rows per value, missing
   values left out *)
ValueCounts(df) ==
    [v \in {df[i].status : i \in {j \in DOMAIN df : ~df[j].status.null}} |->
        Cardinality({i \in DOMAIN df : df[i].status = v})]

(* (counts.values / len(df) * 100).round(1), in tenths of a percent *)
Percentage(count, total) == (2000 * count + total) \div (2 * total)

(* tickets_by_status: a row per status with its count and percentage *)
TicketsByStatus(df) ==
    {[status |-> v, count |-> ValueCounts(df)[v],
      percentage |-> Percentage(ValueCounts(df)[v], Len(df))] : v \in DOMAIN ValueCounts(df)}

(* load_tickets, then tickets_by_status(df) *)
TicketsByStatusCall(raw) ==
    /\ Quiet
    /\ ret' = [session |-> 0, op |-> "tickets_by_status", raw |-> raw,
               df |-> CleanTicketData(raw),
               result |-> TicketsByStatus(CleanTicketData(raw))]
    /\ UNCHANGED <<config, denied, now, ticks, file, db, sess, pc, loc, generated, stored,
                   successes, established>>

NextTickets ==
    \/ ScriptEnds
    \/ \E raw \in RawTables : TicketsByStatusCall(raw)

SpecTickets == Init /\ [][NextTickets]_vars

(* C24: for every ticket table the counts tickets_by_status returns sum to
   the number of tickets of the table: every ticket is counted in exactly
   one status row. *)
C24_CountsSumToTotal ==
    LET RECURSIVE Sum(_)
        Sum(rows) ==
            IF rows = {} THEN 0
            ELSE LET r == CHOOSE x \in rows : TRUE
                 IN r.count + Sum(rows \ {r})
    IN ret.op = "tickets_by_status" =>
          /\ Sum(ret.result) = Len(ret.df)
          /\ \A i \in DOMAIN ret.df :
                Cardinality({r \in ret.result : r.status = ret.df[i].status}) = 1

(* tickets_by_status has returned for a table of several tickets, one of
   them with no status in the file, and has counted more than one status *)
C24_Witness ==
    /\ ret.op = "tickets_by_status"
    /\ Len(ret.raw) >= 3
    /\ \E i \in DOMAIN ret.raw : ret.raw[i].status.null
    /\ Cardinality(ret.result) >= 2
    /\ \E r \in ret.result : r.count >= 2

====
